---- MODULE Spec2Model ----
(***************************************************************************)
(* Model of pkg/endpoints/handlers/fieldmanager/internal/gvkparser.go:     *)
(* the GVK parser (gvkParser.Type), its builder (newGVKParser), the        *)
(* extension extractor (parseGroupVersionKind) and the schema patcher      *)
(* (makeRawExtensionUntyped).                                              *)
(*                                                                         *)
(* Four specifications share the variables:                                *)
(*   Spec        one build (newGVKParser) over a catalog                   *)
(*   SpecLookup  one build followed by lookups of concurrent callers       *)
(*   SpecExtract parseGroupVersionKind applied to one model                *)
(*   SpecPatch   makeRawExtensionUntyped applied to one schema             *)
(***************************************************************************)
EXTENDS Naturals, Sequences, FiniteSets

(* ---------------------------- bounds ----------------------------------- *)

\* longest ListModels() enumeration of a catalog
MaxModels == 2
\* longest ListModels() enumeration of a catalog that is built and served
MaxServedModels == 1
\* longest GVK-list extension handed to the extractor on its own
MaxList == 3
\* longest type list handed to the patcher on its own
MaxPatchTypes == 3
\* number of concurrent callers of gvkParser.Type
NumCallers == 2

(* ------------------------- program constants --------------------------- *)

groupVersionKindExtensionKey == "x-kubernetes-group-version-kind"

RawExtensionName == "io.k8s.apimachinery.pkg.runtime.RawExtension"

(* ------------------------- decoded values ------------------------------ *)
(* An extension value is an interface{} holding a decoded document: a      *)
(* string, a number, a []interface{} or a map[interface{}]interface{}.     *)

Str(s) == [tag |-> "string", s |-> s]

Num(n) == [tag |-> "int", n |-> n]

List(items) == [tag |-> "list", items |-> items]

Map(m) == [tag |-> "map", m |-> m]

\* the nil pointer / nil interface
NIL == [tag |-> "nil"]

GroupVersionKind(g, v, k) == [Group |-> g, Version |-> v, Kind |-> k]

(* ------------------------ parseGroupVersionKind ------------------------ *)

\* v.(string): the value and whether the assertion succeeded; a key that
\* is missing from the map yields the nil interface, which is no string
AsString(m, key) ==
    IF key \in DOMAIN m /\ m[key].tag = "string"
    THEN [ok |-> TRUE, s |-> m[key].s]
    ELSE [ok |-> FALSE, s |-> ""]

\* DecodeElement without the check of kind's assertion: a missing or
\* non-string kind is appended as the empty string
DecodeElementKindUnchecked(gvk) ==
    IF gvk.tag # "map" THEN <<>>
    ELSE LET group == AsString(gvk.m, "group")
             version == AsString(gvk.m, "version")
             kind == AsString(gvk.m, "kind")
         IN  IF ~group.ok THEN <<>>
             ELSE IF ~version.ok THEN <<>>
             ELSE <<GroupVersionKind(group.s, version.s, kind.s)>>

\* one iteration of the loop over gvkList: the GVKs it appends
DecodeElement(gvk) ==
    IF gvk.tag # "map" THEN <<>>
    ELSE LET group == AsString(gvk.m, "group")
             version == AsString(gvk.m, "version")
             kind == AsString(gvk.m, "kind")
         IN  IF ~group.ok THEN <<>>
             ELSE IF ~version.ok THEN <<>>
             ELSE IF ~kind.ok THEN <<>>
             ELSE <<GroupVersionKind(group.s, version.s, kind.s)>>

RECURSIVE DecodeList(_, _)
\* the loop over gvkList, appending to gvkListResult
DecodeList(gvkList, gvkListResult) ==
    IF gvkList = <<>> THEN gvkListResult
    ELSE DecodeList(Tail(gvkList), gvkListResult \o DecodeElement(Head(gvkList)))

\* s is a proto.Schema, seen through GetExtensions()
parseGroupVersionKind(s) ==
    LET extensions == s.extensions
    IN  IF groupVersionKindExtensionKey \notin DOMAIN extensions THEN <<>>
        ELSE LET gvkExtension == extensions[groupVersionKindExtensionKey]
             IN  IF gvkExtension.tag # "list" THEN <<>>
                 ELSE DecodeList(gvkExtension.items, <<>>)

(* ------------------------ makeRawExtensionUntyped ---------------------- *)

TypeDef(name, atom) == [Name |-> name, Atom |-> atom]

\* smdschema.Atom{Untyped: &smdschema.Untyped{}}
UntypedAtom == "Untyped"

\* PatchType that never matches the name
PatchTypeNever(t) == t

\* PatchType that matches every name
PatchTypeEvery(t) == TypeDef(t.Name, UntypedAtom)

\* the body of the loop over s.Types: the entry appended to s2.Types
PatchType(t) ==
    IF t.Name = RawExtensionName THEN TypeDef(t.Name, UntypedAtom) ELSE t

RECURSIVE makeRawExtensionUntyped(_)
\* s is the type list of the schema; the result is the type list of s2
makeRawExtensionUntyped(s) ==
    IF s = <<>> THEN <<>>
    ELSE <<PatchType(Head(s))>> \o makeRawExtensionUntyped(Tail(s))

(* ------------------------------ catalog -------------------------------- *)

VARIABLES
    models,      \* the proto.Models handed to newGVKParser
    toSchema,    \* what schemaconv.ToSchema answers for this catalog
    pc,          \* where newGVKParser is
    parser,      \* the gvkParser under construction (NIL before line 53)
    pos,         \* position of the range loop in ListModels() (0 before it)
    ret,         \* what newGVKParser has handed to its caller
    cpc,         \* per caller of Type: "idle" or "looked" (between 40 and 41)
    carg,        \* per caller: the gvk argument of its current or last call
    cread,       \* per caller: typeName, ok as read on line 40
    cret,        \* per caller: the value its last call returned (NONE yet)
    fin,         \* input of the pure function under check
    fout,        \* its output
    fpc          \* "call" before it is applied, "done" after

vars == <<models, toSchema, pc, parser, pos, ret, cpc, carg, cread, cret, fin, fout, fpc>>

buildVars == <<models, toSchema, pc, parser, pos, ret>>

callVars == <<cpc, carg, cread, cret>>

funVars == <<fin, fout, fpc>>

\* nothing returned yet / no call made yet
NONE == [tag |-> "none"]

\* the pointer &parser of line 69
PTR == [tag |-> "&parser"]

RECURSIVE SeqsUpTo(_, _)
\* the sequences over S of length at most n
SeqsUpTo(S, n) ==
    IF n = 0 THEN {<<>>}
    ELSE LET shorter == SeqsUpTo(S, n - 1)
         IN  shorter \cup {Append(q, x) : q \in {r \in shorter : Len(r) = n - 1}, x \in S}

Distinct(q, Key(_)) == \A i, j \in 1..Len(q) : Key(q[i]) = Key(q[j]) => i = j

Ident(x) == x

NameOf(t) == t.Name

ModelNames == {"io.k8s.api.apps.v1.Deployment", "io.k8s.api.core.v1.Pod", RawExtensionName}

\* the model names of the catalogs that are built and served
ServedModelNames == {"io.k8s.api.apps.v1.Deployment", "io.k8s.api.core.v1.Pod"}

GVKMap(g, v, k) == Map([group |-> Str(g), version |-> Str(v), kind |-> Str(k)])

\* elements of a GVK-list extension as a catalog carries them
CatalogElements ==
    { Str("apps/v1"),
      Map([group |-> Str("apps"), version |-> Str("v1")]),
      GVKMap("apps", "v1", "Deployment"),
      GVKMap("", "v1", "Pod"),
      GVKMap("apps", "v1", "") }

NoExtensions == [k \in {} |-> NIL]

ExtensionMaps(lists) ==
    {NoExtensions}
    \cup {[k \in {"x-kubernetes-patch-strategy"} |-> Str("merge")]}
    \cup {[k \in {groupVersionKindExtensionKey} |-> Str("apps/v1")]}
    \cup {[k \in {groupVersionKindExtensionKey} |-> List(l)] : l \in lists}

Schemas(lists) == {[extensions |-> e] : e \in ExtensionMaps(lists)}

\* the GVK-list extensions of the models of a catalog: empty, one entry of
\* each kind, and a well-formed entry after a sibling of each kind
CatalogLists ==
    {<<>>}
    \cup {<<e>> : e \in CatalogElements}
    \cup {<<e, GVKMap("apps", "v1", "Deployment")>> : e \in CatalogElements}

\* a catalog: ListModels() and LookupModel(name) for the names it lists
Catalogs(names, maxModels) ==
    LET schemas == Schemas(CatalogLists)
    IN  UNION {{[list |-> l, lookup |-> f] :
                  f \in [{l[i] : i \in 1..Len(l)} -> schemas \cup {NIL}]} :
               l \in {q \in SeqsUpTo(names, maxModels) : Distinct(q, Ident)}}

ListModels(m) == m.list

LookupModel(m, name) == m.lookup[name]

SchemaTypeNames == {"io.k8s.api.apps.v1.Deployment", RawExtensionName}

\* schemaconv.ToSchema emits one named type per model name: names are unique
ConvertedSchemas ==
    {q \in SeqsUpTo({TypeDef(n, "Map") : n \in SchemaTypeNames},
                    Cardinality(SchemaTypeNames)) :
        Distinct(q, NameOf)}

ToSchemaOutcomes ==
    {[err |-> TRUE, types |-> <<>>]} \cup {[err |-> FALSE, types |-> t] : t \in ConvertedSchemas}

(* ---------------------------- newGVKParser ----------------------------- *)

\* map[schema.GroupVersionKind]string{}
EmptyIndex == [g \in {} |-> ""]

\* fmt.Errorf("failed to convert models to schema: %v", err)
ConversionError == [tag |-> "error", msg |-> "failed to convert models to schema"]

NoReturn == [parser |-> NONE, err |-> NONE]

\* ConvertStep that builds the parser before it looks at err and returns both
ConvertStepParserWithError(out) ==
    IF out.err
    THEN [pc |-> "failed",
          parser |-> [gvks |-> EmptyIndex, parser |-> [Schema |-> <<>>]],
          pos |-> 0,
          ret |-> [parser |-> PTR, err |-> ConversionError]]
    ELSE [pc |-> "loop",
          parser |-> [gvks |-> EmptyIndex,
                      parser |-> [Schema |-> makeRawExtensionUntyped(out.types)]],
          pos |-> 1,
          ret |-> NoReturn]

\* lines 48-56: the conversion, its error return, the patch and the new parser
ConvertStep(out) ==
    IF out.err
    THEN [pc |-> "failed", parser |-> NIL, pos |-> 0,
          ret |-> [parser |-> NIL, err |-> ConversionError]]
    ELSE [pc |-> "loop",
          parser |-> [gvks |-> EmptyIndex,
                      parser |-> [Schema |-> makeRawExtensionUntyped(out.types)]],
          pos |-> 1,
          ret |-> NoReturn]

\* RecordGVK without the check of the kind
RecordGVKAnyKind(gvks, gvk, modelName) ==
    [g \in DOMAIN gvks \cup {gvk} |-> IF g = gvk THEN modelName ELSE gvks[g]]

\* RecordGVK that keeps the first model of a GVK
RecordGVKFirstWins(gvks, gvk, modelName) ==
    IF gvk.Kind # "" /\ gvk \notin DOMAIN gvks
    THEN [g \in DOMAIN gvks \cup {gvk} |-> IF g = gvk THEN modelName ELSE gvks[g]]
    ELSE gvks

\* lines 64-66: parser.gvks[gvk] = modelName when the kind is not empty
RecordGVK(gvks, gvk, modelName) ==
    IF gvk.Kind # ""
    THEN [g \in DOMAIN gvks \cup {gvk} |-> IF g = gvk THEN modelName ELSE gvks[g]]
    ELSE gvks

RECURSIVE RecordGVKs(_, _, _)
\* lines 63-67: the loop over gvkList
RecordGVKs(gvks, gvkList, modelName) ==
    IF gvkList = <<>> THEN gvks
    ELSE RecordGVKs(RecordGVK(gvks, Head(gvkList), modelName), Tail(gvkList), modelName)

\* LoopBody that skips a model that cannot be looked up
LoopBodySkipsNil(gvks, modelName, model) ==
    IF model = NIL
    THEN [pc |-> "loop", gvks |-> gvks]
    ELSE [pc |-> "loop", gvks |-> RecordGVKs(gvks, parseGroupVersionKind(model), modelName)]

\* lines 58-67: one iteration of the loop over ListModels()
LoopBody(gvks, modelName, model) ==
    IF model = NIL
    THEN [pc |-> "panicked", gvks |-> gvks]
    ELSE [pc |-> "loop", gvks |-> RecordGVKs(gvks, parseGroupVersionKind(model), modelName)]

Convert ==
    /\ pc = "start"
    /\ LET r == ConvertStep(toSchema)
       IN  /\ pc' = r.pc
           /\ parser' = r.parser
           /\ pos' = r.pos
           /\ ret' = r.ret
    /\ UNCHANGED <<models, toSchema, callVars, funVars>>

Iterate ==
    /\ pc = "loop"
    /\ pos <= Len(ListModels(models))
    /\ LET modelName == ListModels(models)[pos]
           r == LoopBody(parser.gvks, modelName, LookupModel(models, modelName))
       IN  /\ pc' = r.pc
           /\ parser' = [parser EXCEPT !.gvks = r.gvks]
           /\ pos' = IF r.pc = "loop" THEN pos + 1 ELSE pos
    /\ UNCHANGED <<models, toSchema, ret, callVars, funVars>>

\* line 69
Return ==
    /\ pc = "loop"
    /\ pos > Len(ListModels(models))
    /\ pc' = "returned"
    /\ ret' = [parser |-> PTR, err |-> NIL]
    /\ UNCHANGED <<models, toSchema, parser, pos, callVars, funVars>>

(* ----------------------------- gvkParser.Type -------------------------- *)

Callers == 1..NumCallers

\* the GVKs callers ask for
Queries ==
    { GroupVersionKind("apps", "v1", "Deployment"),
      GroupVersionKind("", "v1", "Pod"),
      GroupVersionKind("apps", "v1", "") }

\* typed.Parser.Type: the handle of a named type of the parser's schema
ParserType(p, typeName) == [Schema |-> p.Schema, NamedType |-> typeName]

\* IndexRead that stores the zero value under a key it misses
IndexReadInserts(gvks, gvk) ==
    IF gvk \in DOMAIN gvks
    THEN [typeName |-> gvks[gvk], ok |-> TRUE, gvks |-> gvks]
    ELSE [typeName |-> "", ok |-> FALSE,
          gvks |-> [g \in DOMAIN gvks \cup {gvk} |-> IF g = gvk THEN "" ELSE gvks[g]]]

\* line 40: typeName, ok := p.gvks[gvk], and the map as the read leaves it
IndexRead(gvks, gvk) ==
    IF gvk \in DOMAIN gvks
    THEN [typeName |-> gvks[gvk], ok |-> TRUE, gvks |-> gvks]
    ELSE [typeName |-> "", ok |-> FALSE, gvks |-> gvks]

\* TypeResult without the check of ok
TypeResultOkUnchecked(p, typeName, ok) == ParserType(p.parser, typeName)

\* lines 41-44
TypeResult(p, typeName, ok) ==
    IF ~ok THEN NIL ELSE ParserType(p.parser, typeName)

TypeLookup(c, gvk) ==
    /\ ret.parser = PTR
    /\ cpc[c] = "idle"
    /\ LET r == IndexRead(parser.gvks, gvk)
       IN  /\ cread' = [cread EXCEPT ![c] = [typeName |-> r.typeName, ok |-> r.ok]]
           /\ parser' = [parser EXCEPT !.gvks = r.gvks]
    /\ cpc' = [cpc EXCEPT ![c] = "looked"]
    /\ carg' = [carg EXCEPT ![c] = gvk]
    /\ cret' = [cret EXCEPT ![c] = NONE]
    /\ UNCHANGED <<models, toSchema, pc, pos, ret, funVars>>

TypeReturn(c) ==
    /\ cpc[c] = "looked"
    /\ cret' = [cret EXCEPT ![c] = TypeResult(parser, cread[c].typeName, cread[c].ok)]
    /\ cpc' = [cpc EXCEPT ![c] = "idle"]
    /\ UNCHANGED <<buildVars, carg, cread, funVars>>

(* ---------------------------- specifications --------------------------- *)

NoCalls ==
    /\ cpc = [c \in Callers |-> "idle"]
    /\ carg = [c \in Callers |-> NONE]
    /\ cread = [c \in Callers |-> NONE]
    /\ cret = [c \in Callers |-> NONE]

NoBuild ==
    /\ models = NONE
    /\ toSchema = NONE
    /\ pc = "none"
    /\ parser = NIL
    /\ pos = 0
    /\ ret = NoReturn

NoFun == fin = NONE /\ fout = NONE /\ fpc = "none"

BuildInit(catalogs) ==
    /\ models \in catalogs
    /\ toSchema \in ToSchemaOutcomes
    /\ pc = "start"
    /\ parser = NIL
    /\ pos = 0
    /\ ret = NoReturn
    /\ NoCalls
    /\ NoFun

\* one build over a catalog
Init == BuildInit(Catalogs(ModelNames, MaxModels))

Next ==
    \/ Convert
    \/ Iterate
    \/ Return

Spec == Init /\ [][Next]_vars

\* one build, then lookups by concurrent callers
InitLookup == BuildInit(Catalogs(ServedModelNames, MaxServedModels))

NextLookup ==
    \/ Convert
    \/ Iterate
    \/ Return
    \/ \E c \in Callers, gvk \in Queries : TypeLookup(c, gvk)
    \/ \E c \in Callers : TypeReturn(c)

SpecLookup == InitLookup /\ [][NextLookup]_vars

(* ------------------- the pure functions on their own ------------------- *)

\* elements of a GVK-list extension, well-formed and malformed
ExtractElements ==
    CatalogElements
    \cup { Num(1),
           List(<<Str("apps"), Str("v1"), Str("Deployment")>>),
           Map([version |-> Str("v1"), kind |-> Str("Deployment")]),
           Map([group |-> Str("apps"), kind |-> Str("Deployment")]),
           Map([group |-> Num(1), version |-> Str("v1"), kind |-> Str("Deployment")]),
           Map([group |-> Str("apps"), version |-> Num(1), kind |-> Str("Deployment")]),
           Map([group |-> Str("apps"), version |-> Str("v1"), kind |-> Num(1)]),
           Map([group |-> Str("apps"), version |-> Str("v1"), kind |-> Str("StatefulSet"),
                scope |-> Str("Namespaced")]) }

InitExtract ==
    /\ NoBuild
    /\ NoCalls
    /\ fin \in Schemas(SeqsUpTo(ExtractElements, MaxList))
    /\ fout = NONE
    /\ fpc = "call"

Extract ==
    /\ fpc = "call"
    /\ fout' = parseGroupVersionKind(fin)
    /\ fpc' = "done"
    /\ UNCHANGED <<fin, buildVars, callVars>>

NextExtract == Extract

SpecExtract == InitExtract /\ [][NextExtract]_vars

PatchTypeNames == ModelNames

PatchAtoms == {"Map", "Scalar", UntypedAtom}

InitPatch ==
    /\ NoBuild
    /\ NoCalls
    /\ fin \in SeqsUpTo({TypeDef(n, a) : n \in PatchTypeNames, a \in PatchAtoms}, MaxPatchTypes)
    /\ fout = NONE
    /\ fpc = "call"

Patch ==
    /\ fpc = "call"
    /\ fout' = makeRawExtensionUntyped(fin)
    /\ fpc' = "done"
    /\ UNCHANGED <<fin, buildVars, callVars>>

NextPatch == Patch

SpecPatch == InitPatch /\ [][NextPatch]_vars

(* ------------------------------ properties ----------------------------- *)

\* what the specification says of a GVK-list entry, stated on its own
WellFormed(e) ==
    /\ e.tag = "map"
    /\ \A k \in {"group", "version", "kind"} : k \in DOMAIN e.m /\ e.m[k].tag = "string"

GVKOf(e) == GroupVersionKind(e.m["group"].s, e.m["version"].s, e.m["kind"].s)

\* the GVK-list extension of a model: empty when absent or no sequence
GVKItems(s) ==
    IF /\ groupVersionKindExtensionKey \in DOMAIN s.extensions
       /\ s.extensions[groupVersionKindExtensionKey].tag = "list"
    THEN s.extensions[groupVersionKindExtensionKey].items
    ELSE <<>>

\* the GVKs a model declares
Declared(s) == {GVKOf(GVKItems(s)[j]) : j \in {j \in 1..Len(GVKItems(s)) : WellFormed(GVKItems(s)[j])}}

Enumerated == 1..Len(models.list)

ModelAt(i) == models.lookup[models.list[i]]

\* the positions in ListModels() of the models that declare g
Declaring(g) == {i \in Enumerated : g \in Declared(ModelAt(i))}

Last(S) == CHOOSE i \in S : \A j \in S : j <= i

PatchedSchema == makeRawExtensionUntyped(toSchema.types)

Returned(c) == cpc[c] = "idle" /\ cret[c] # NONE

\* C1: Type(g) returns nil exactly when g is no key of the index, and for a
\* key the handle that the parser bound to the patched schema gives for the
\* model name index[g].
C1_TypeResolvesThroughIndex ==
    \A c \in Callers : Returned(c) =>
        /\ parser.parser.Schema = PatchedSchema
        /\ (cret[c] = NIL) <=> (carg[c] \notin DOMAIN parser.gvks)
        /\ carg[c] \in DOMAIN parser.gvks =>
              cret[c] = ParserType(parser.parser, parser.gvks[carg[c]])

C1_Witness ==
    \E c, d \in Callers :
        /\ Returned(c) /\ cret[c] = NIL
        /\ Returned(d) /\ cret[d] # NIL

\* C2: after a successful build the keys of the index are exactly the GVKs of
\* non-empty kind that are well-formed entries of the GVK-list of some
\* enumerated model, every value names an enumerated model that declares its
\* key, and the index is empty when no model carries a GVK extension.
C2_IndexIsTheDeclaredGVKs ==
    pc = "returned" =>
        /\ DOMAIN parser.gvks =
              {g \in UNION {Declared(ModelAt(i)) : i \in Enumerated} : g.Kind # ""}
        /\ \A g \in DOMAIN parser.gvks :
              /\ g.Kind # ""
              /\ \E i \in Enumerated :
                    parser.gvks[g] = models.list[i] /\ g \in Declared(ModelAt(i))
        /\ (\A i \in Enumerated :
               groupVersionKindExtensionKey \notin DOMAIN ModelAt(i).extensions)
              => parser.gvks = EmptyIndex

C2_Witness ==
    /\ pc = "returned"
    /\ DOMAIN parser.gvks # {}
    /\ \E i \in Enumerated :
          /\ \E g \in Declared(ModelAt(i)) : g.Kind = ""
          /\ \E g \in Declared(ModelAt(i)) : g.Kind # ""

\* C3: when several models declare one GVK the build still succeeds, and the
\* index binds the GVK to the model that comes last in ListModels() among
\* those that declare it; the build fails only when the converter fails or a
\* name cannot be looked up.
C3_LastDeclaringModelWins ==
    /\ pc = "returned" =>
          \A g \in DOMAIN parser.gvks : parser.gvks[g] = models.list[Last(Declaring(g))]
    /\ pc = "failed" => toSchema.err
    /\ pc = "panicked" => ModelAt(pos) = NIL

C3_Witness ==
    /\ pc = "returned"
    /\ \E g \in DOMAIN parser.gvks : Cardinality(Declaring(g)) >= 2

\* C4: parseGroupVersionKind returns, in the order of the GVK-list, the GVKs
\* of exactly the elements that are mappings with string group, version and
\* kind, and nothing when the key is absent or its value is no sequence.
C4_ExtractorKeepsWellFormedInOrder ==
    fpc = "done" =>
        LET kept == SelectSeq(GVKItems(fin), WellFormed)
        IN  fout = [i \in 1..Len(kept) |-> GVKOf(kept[i])]

C4_Witness ==
    /\ fpc = "done"
    /\ Len(GVKItems(fin)) = 3
    /\ WellFormed(GVKItems(fin)[1])
    /\ ~WellFormed(GVKItems(fin)[2])
    /\ WellFormed(GVKItems(fin)[3])
    /\ Len(fout) = 2

\* C5: when the converter fails the build returns no parser and a conversion
\* error, before any model is enumerated and before any index exists.
C5_ConversionFailureReturnsNoParser ==
    /\ toSchema.err => pc \in {"start", "failed"}
    /\ pc = "failed" =>
          /\ ret = [parser |-> NIL, err |-> ConversionError]
          /\ parser = NIL
          /\ pos = 0

C5_Witness == pc = "failed" /\ Len(models.list) > 0

\* C6: when the converted schema has the raw-extension type, the schema of
\* the parser has exactly one entry of that name and its atom is untyped.
C6_RawExtensionIsUntyped ==
    (parser # NIL /\ \E i \in DOMAIN toSchema.types : toSchema.types[i].Name = RawExtensionName)
    => LET types == parser.parser.Schema
           raw == {i \in DOMAIN types : types[i].Name = RawExtensionName}
       IN  /\ Cardinality(raw) = 1
           /\ \A i \in raw : types[i].Atom = UntypedAtom

C6_Witness ==
    /\ pc = "returned"
    /\ \E i \in DOMAIN toSchema.types : toSchema.types[i] = TypeDef(RawExtensionName, "Map")
    /\ Len(toSchema.types) = 2

\* C7: the patcher keeps the length and the names of the type list, and every
\* entry of another name than the raw-extension's is unchanged; without the
\* raw-extension name the output is the input.
C7_PatcherLeavesOtherTypesAlone ==
    fpc = "done" =>
        /\ Len(fout) = Len(fin)
        /\ \A i \in 1..Len(fin) :
              /\ fout[i].Name = fin[i].Name
              /\ fin[i].Name # RawExtensionName => fout[i] = fin[i]
        /\ (\A i \in 1..Len(fin) : fin[i].Name # RawExtensionName) => fout = fin

C7_Witness ==
    /\ fpc = "done"
    /\ \E i, j \in 1..Len(fin) :
          /\ fin[i] = TypeDef(RawExtensionName, "Map")
          /\ fin[j].Name # RawExtensionName /\ fin[j].Atom = "Scalar"

\* C8: a name that cannot be looked up ends the build in a fault that is not
\* the conversion error and returns nothing; a parser is returned only after
\* every enumerated model was processed.
C8_UnresolvableNameFaultsBeforeReturn ==
    /\ pc = "panicked" => ret = NoReturn /\ ModelAt(pos) = NIL
    /\ pc \in {"loop", "returned"} => \A i \in 1..(pos - 1) : ModelAt(i) # NIL
    /\ pc \in {"start", "loop", "panicked"} => ret = NoReturn
    /\ ret.parser = PTR =>
          /\ pc = "returned"
          /\ ret.err = NIL
          /\ pos = Len(models.list) + 1

C8_Witness ==
    /\ pc = "panicked"
    /\ pos = 2
    /\ parser.gvks # EmptyIndex

\* two finished lookups of one GVK have one result
SameArgumentSameResult ==
    \A c, d \in Callers : (Returned(c) /\ Returned(d) /\ carg[c] = carg[d]) => cret[c] = cret[d]

\* C9: once the build has returned a parser, no step of any lookup changes the
\* index or the schema, and the result of a lookup depends on its GVK only.
C9_LookupsLeaveParserUnchanged ==
    [][ret.parser = PTR => (parser' = parser /\ ret' = ret /\ SameArgumentSameResult')]_vars

C9_Witness ==
    /\ \A c \in Callers : Returned(c) /\ carg[c] = carg[1] /\ cret[c] = NIL
    /\ parser.gvks # EmptyIndex

====
